---- MODULE Spec2Model ----
(***************************************************************************)
(* Model of the robots.txt handling and navigation gating of the           *)
(* web_scraper repository:                                                 *)
(*   src/playwright/async_/async_playwright_scraper.py  AsyncPlaywrightScrapper *)
(*   src/selenium/sync/selenium_scraper.py              SeleniumScraper    *)
(*   src/playwright/async_/async_abstract_scraper.py    PlaywrightScrapper *)
(*   src/playwright/async/async_abstract_browser_controller.py             *)
(*                                                      AbstractScraper    *)
(* The scraper delegates rule parsing and matching to the standard         *)
(* library class urllib.robotparser.RobotFileParser; the operators Parse,  *)
(* CanFetch, CrawlDelayOf and RequestRateOf compute what that class        *)
(* computes at the call sites of the scraper.                              *)
(*                                                                         *)
(* Encoding of Python values:                                              *)
(*   None (a number that is absent)        the integer None                *)
(*   a path "/a/public"                    <<"/", "a", "/", "public">>     *)
(*   str.startswith                        IsPrefix on those sequences     *)
(*   a robots.txt line "Key: value"        a record made by Line(...)      *)
(*   request_rate                          <<>> None, <<0>> the int 0,     *)
(*                                         <<r, s>> RequestRate(r, s)      *)
(***************************************************************************)
EXTENDS Integers, Sequences, FiniteSets, TLC

VARIABLES
    \* ---- AsyncPlaywrightScrapper objects (specification Spec)
    domain,         \* self.domain, as the labels of its host name
    user_agent,     \* self.user_agent
    rp,             \* self.rp
    request_rate,   \* self.request_rate
    crawl_delay,    \* self.crawl_delay
    browser,        \* self.browser
    context,        \* self.context
    page,           \* self.page
    \* ---- the environment
    disk,           \* the robots.txt files under PROJECT_ROOT/web_scraper/sites
    clock,          \* time.time()
    inflight,       \* per domain, the robots.txt requests awaiting a response
    fetches,        \* per domain, the robots.txt requests issued so far
    requests,       \* the navigation requests the browser drivers received
    handles,        \* per scraper, what its browser process holds open
    \* ---- the coroutines calling the scrapers
    pc,             \* where each task stands in the operation it runs
    self,           \* the scraper the task's operation runs on
    content,        \* the local variable content of _get_robot_rules
    exc,            \* the exception the task's last operation raised
    res,            \* what the task's last _get_robot_rules did
    nav,            \* arguments and course of the task's last navigate_to
    opsLeft,        \* the number of operations the task may still start
    \* ---- robots rule evaluation on its own (specification SpecRules)
    rbody,          \* the robots.txt body handed to RobotFileParser.parse
    rpath,          \* the path of the URL handed to can_fetch
    ragent,         \* the user agent handed to can_fetch
    rphase,         \* "input" before the check, "checked" after it
    rallowed,       \* the result of can_fetch
    \* ---- AbstractScraper.run (specification SpecRun)
    runpc,          \* where run stands: in its try block, in finally, or over
    step,           \* the position in the try block of the step to call next
    called,         \* the methods the execution has invoked, in order
    raw_data,       \* the local variable raw_data
    processed_data, \* the local variable processed_data
    pending,        \* the exception that left the try block, by the step
                    \* that raised it
    outcome,        \* what the caller of run got
    runsLeft,       \* the number of executions of run still to start
    \* ---- SeleniumScraper.wait_for_and_then_return_elements (SpecWait)
    wpc,            \* where the call stands
    retries,        \* the argument retries
    counter,        \* the local variable counter
    elements,       \* the local variable elements
    attempts,       \* what the two helpers did in each pass of the loop
    wresult         \* what the caller got

ruleVars == <<rbody, rpath, ragent, rphase, rallowed>>

runVars == <<runpc, step, called, raw_data, processed_data, pending, outcome, runsLeft>>

waitVars == <<wpc, retries, counter, elements, attempts, wresult>>

otherVars == <<ruleVars, runVars, waitVars>>

objVars == <<domain, user_agent, rp, request_rate, crawl_delay, browser, context, page>>

envVars == <<disk, clock, inflight, fetches, requests, handles>>

taskVars == <<pc, self, content, exc, res, nav, opsLeft>>

vars == <<domain, user_agent, rp, request_rate, crawl_delay, browser, context, page,
          disk, clock, inflight, fetches, requests, handles,
          pc, self, content, exc, res, nav, opsLeft,
          rbody, rpath, ragent, rphase, rallowed,
          runpc, step, called, raw_data, processed_data, pending, outcome, runsLeft,
          wpc, retries, counter, elements, attempts, wresult>>

\* ------------------------------------------------------------------------
\* Bounds
\* ------------------------------------------------------------------------
\* the number of Allow/Disallow lines of a generated robots.txt body
MaxRules == 2
\* the number of operations the task of Spec starts
MaxOps == 2
\* the number of operations each of the tasks of SpecConc starts
MaxConcOps == 1
\* the latest reading of the clock
MaxClock == 2
\* the number of operations the task of SpecPages starts
MaxPageOps == 4
\* the number of executions of AbstractScraper.run
MaxRuns == 3
\* the largest value of the argument retries
MaxRetries == 3

\* the scraper objects and the tasks (coroutines) that call them
Scrapers == {1, 2}
Tasks == {1, 2}

\* ------------------------------------------------------------------------
\* Python values
\* ------------------------------------------------------------------------
\* Python's None where a number may stand; no number of the model equals it
None == -100

IsPrefix(p, s) ==
    /\ Len(p) <= Len(s)
    /\ \A i \in 1..Len(p) : p[i] = s[i]

\* "agent in useragent": substring test on the user agent names of the model
IsSubstring(a, b) ==
    \/ a = b
    \/ (a = "bot" /\ b = "mybot")

\* ------------------------------------------------------------------------
\* robots.txt lines
\* ------------------------------------------------------------------------
Line(k, agent, path, num, num2) ==
    [k |-> k, agent |-> agent, path |-> path, num |-> num, num2 |-> num2]

UserAgentLine(a)  == Line("user-agent", a, <<>>, None, None)
DisallowLine(p)   == Line("disallow", "", p, None, None)
AllowLine(p)      == Line("allow", "", p, None, None)
\* num = None stands for a value that is not a digit string
CrawlDelayLine(n) == Line("crawl-delay", "", <<>>, n, None)
RequestRateLine(r, s) == Line("request-rate", "", <<>>, r, s)
BlankLine         == Line("", "", <<>>, None, None)

\* ------------------------------------------------------------------------
\* urllib.robotparser: Entry, RuleLine, RobotFileParser
\* ------------------------------------------------------------------------
NewEntry ==
    [isNone |-> FALSE, useragents |-> <<>>, rulelines |-> <<>>,
     delay |-> None, req_rate |-> <<>>]

NoEntry ==
    [isNone |-> TRUE, useragents |-> <<>>, rulelines |-> <<>>,
     delay |-> None, req_rate |-> <<>>]

\* RuleLine.__init__: an empty Disallow value means allow all
RuleLine(path, allowance) ==
    [path |-> path, allowance |-> (allowance \/ path = <<>>)]

\* a rule line that applies to the very path of its pattern only
RuleAppliesToExact(rule, filename) ==
    rule.path = <<"*">> \/ rule.path = filename

\* RuleLine.applies_to
RuleAppliesTo(rule, filename) ==
    rule.path = <<"*">> \/ IsPrefix(rule.path, filename)

\* RobotFileParser.__init__; lines records the text parse was last given
NewRobotFileParser ==
    [isNone |-> FALSE, last_checked |-> 0, entries |-> <<>>,
     default_entry |-> NoEntry, lines |-> <<>>]

\* self.rp = None
NoRobotFileParser ==
    [isNone |-> TRUE, last_checked |-> 0, entries |-> <<>>,
     default_entry |-> NoEntry, lines |-> <<>>]

\* RobotFileParser._add_entry
AddEntry(parser, entry) ==
    IF \E i \in 1..Len(entry.useragents) : entry.useragents[i] = "*"
    THEN IF parser.default_entry.isNone
         THEN [parser EXCEPT !.default_entry = entry]
         ELSE parser
    ELSE [parser EXCEPT !.entries = Append(@, entry)]

\* One iteration of the loop of RobotFileParser.parse; st is the record
\* [rp, state, entry] of the parser's running state.
ParseLine(st, line) ==
    IF line.k = ""
    THEN IF st.state = 1
         THEN [st EXCEPT !.entry = NewEntry, !.state = 0]
         ELSE IF st.state = 2
              THEN [rp |-> AddEntry(st.rp, st.entry), state |-> 0, entry |-> NewEntry]
              ELSE st
    ELSE IF line.k = "user-agent"
    THEN LET flushed == IF st.state = 2
                        THEN [rp |-> AddEntry(st.rp, st.entry), state |-> 2,
                              entry |-> NewEntry]
                        ELSE st
         IN [flushed EXCEPT !.entry.useragents = Append(@, line.agent),
                            !.state = 1]
    ELSE IF line.k = "disallow"
    THEN IF st.state # 0
         THEN [st EXCEPT !.entry.rulelines = Append(@, RuleLine(line.path, FALSE)),
                         !.state = 2]
         ELSE st
    ELSE IF line.k = "allow"
    THEN IF st.state # 0
         THEN [st EXCEPT !.entry.rulelines = Append(@, RuleLine(line.path, TRUE)),
                         !.state = 2]
         ELSE st
    ELSE IF line.k = "crawl-delay"
    THEN IF st.state # 0
         THEN [st EXCEPT !.entry.delay = IF line.num # None THEN line.num ELSE @,
                         !.state = 2]
         ELSE st
    ELSE IF line.k = "request-rate"
    THEN IF st.state # 0
         THEN [st EXCEPT !.entry.req_rate =
                             IF line.num # None /\ line.num2 # None
                             THEN <<line.num, line.num2>> ELSE @,
                         !.state = 2]
         ELSE st
    ELSE st

RECURSIVE ParseLines(_, _)
ParseLines(st, lines) ==
    IF lines = <<>> THEN st
    ELSE ParseLines(ParseLine(st, Head(lines)), Tail(lines))

\* RobotFileParser.parse(lines) at time now
Parse(parser, lines, now) ==
    LET st == ParseLines([rp |-> [parser EXCEPT !.last_checked = now,
                                                !.lines = lines],
                          state |-> 0, entry |-> NewEntry], lines)
    IN IF st.state = 2 THEN AddEntry(st.rp, st.entry) ELSE st.rp

\* Entry.applies_to
EntryAppliesTo(entry, useragent) ==
    \E i \in 1..Len(entry.useragents) :
        \/ entry.useragents[i] = "*"
        \/ IsSubstring(entry.useragents[i], useragent)

\* the rule lines of an entry that apply to a path
MatchingRules(rulelines, filename) ==
    {i \in 1..Len(rulelines) : RuleAppliesTo(rulelines[i], filename)}

\* an allowance decided by the longest pattern that applies, the first
\* declared among equally long ones
AllowanceLongest(rulelines, filename) ==
    LET m == MatchingRules(rulelines, filename)
    IN IF m = {} THEN TRUE
       ELSE rulelines[CHOOSE i \in m : \A j \in m :
                         \/ Len(rulelines[j].path) < Len(rulelines[i].path)
                         \/ (Len(rulelines[j].path) = Len(rulelines[i].path) /\ i <= j)
                     ].allowance

\* an allowance decided by the last rule line that applies
AllowanceLast(rulelines, filename) ==
    LET m == MatchingRules(rulelines, filename)
    IN IF m = {} THEN TRUE
       ELSE rulelines[CHOOSE i \in m : \A j \in m : j <= i].allowance

\* Entry.allowance: the first rule line that applies decides
RECURSIVE Allowance(_, _)
Allowance(rulelines, filename) ==
    IF rulelines = <<>> THEN TRUE
    ELSE IF RuleAppliesTo(Head(rulelines), filename)
         THEN Head(rulelines).allowance
         ELSE Allowance(Tail(rulelines), filename)

\* the entry RobotFileParser consults for a user agent: the first entry
\* that applies, else the default entry, else none
EntryFor(parser, useragent) ==
    IF \E i \in 1..Len(parser.entries) : EntryAppliesTo(parser.entries[i], useragent)
    THEN parser.entries[CHOOSE i \in 1..Len(parser.entries) :
                        /\ EntryAppliesTo(parser.entries[i], useragent)
                        /\ \A j \in 1..(i-1) : ~EntryAppliesTo(parser.entries[j], useragent)]
    ELSE parser.default_entry

\* the path can_fetch matches against: the path of the URL, "/" when empty
UrlPath(path) == IF path = <<>> THEN <<"/">> ELSE path

\* RobotFileParser.can_fetch (disallow_all and allow_all are only set by
\* read(), which the scraper does not call)
CanFetch(parser, useragent, path) ==
    IF parser.last_checked = 0 THEN FALSE
    ELSE LET e == EntryFor(parser, useragent)
         IN IF e.isNone THEN TRUE ELSE Allowance(e.rulelines, UrlPath(path))

\* RobotFileParser.crawl_delay
CrawlDelayOf(parser, useragent) ==
    IF parser.last_checked = 0 THEN None
    ELSE EntryFor(parser, useragent).delay

\* RobotFileParser.request_rate
RequestRateOf(parser, useragent) ==
    IF parser.last_checked = 0 THEN <<>>
    ELSE EntryFor(parser, useragent).req_rate


\* ------------------------------------------------------------------------
\* The scrapers' environment
\* ------------------------------------------------------------------------
\* self.domain: the labels of the host of the domain URL
DomainCom == <<"example", "com">>
DomainOrg == <<"www", "example", "org">>
DomainNet == <<"other", "net">>
Domains == {DomainCom, DomainOrg, DomainNet}

\* _extract_domain_name_from_url
ExtractDomainName(d) == IF Len(d) > 2 THEN d[Len(d) - 1] ELSE d[1]

\* robots_txt_filepath, named by the domain name
FileNames == {ExtractDomainName(d) : d \in Domains}

\* a text (str): its lines, and whether they end with "\r\n" or with "\n"
Text(lines, crlf) == [lines |-> lines, crlf |-> crlf]
EmptyText == Text(<<>>, FALSE)

\* str.splitlines(): the lines without their ends, "\r\n" and "\n" alike
SplitLines(text) == text.lines

\* a save that leaves no file behind
FileOfNothing(body, now) == [exists |-> FALSE, body |-> EmptyText, mtime |-> 0]

\* a save that writes the first line of the text only
FileOfFirstLine(body, now) ==
    [exists |-> TRUE, body |-> Text(SubSeq(body.lines, 1, 1), body.crlf), mtime |-> now]

\* a file: whether it exists, its text and the time it was written
NoFile == [exists |-> FALSE, body |-> EmptyText, mtime |-> 0]
\* open(robots_txt_filepath, 'w'); f.write(content)
FileOf(body, now) == [exists |-> TRUE, body |-> body, mtime |-> now]
\* open(robots_txt_filepath, 'r'); f.read(): text mode reads every line end
\* as "\n"
ReadText(file) == Text(file.body.lines, FALSE)

PathPrivate     == <<"/", "private">>
PathPrivatePage == <<"/", "private", "/", "page">>
PathPublic      == <<"/", "public">>

\* the robots.txt bodies a server answers with
BodyDelay3   == <<UserAgentLine("*"), DisallowLine(PathPrivate), CrawlDelayLine(3)>>
BodyDelay0   == <<UserAgentLine("*"), DisallowLine(PathPrivate), CrawlDelayLine(0)>>
BodyNoDelay  == <<UserAgentLine("*"), DisallowLine(PathPrivate)>>
BodyBadDelay == <<UserAgentLine("*"), DisallowLine(PathPrivate), CrawlDelayLine(None)>>

ServerBodies == {BodyDelay3, BodyDelay0, BodyNoDelay, BodyBadDelay}

\* response.text(): one of the bodies, with "\n" line ends, or the first
\* with "\r\n" line ends
ServerTexts == {Text(b, FALSE) : b \in ServerBodies} \cup {Text(BodyDelay3, TRUE)}

\* what session.get(robots_url, timeout=10) ends with other than a 200
FetchFailures == {"non200", "timeout", "clienterror"}

\* the arguments of navigate_to: url (its path, and whether it holds "%2C"),
\* idx and crawl_override
UrlPrivatePage == [path |-> PathPrivatePage, pct |-> FALSE]
UrlPublic      == [path |-> PathPublic, pct |-> FALSE]
UrlPublicPct   == [path |-> PathPublic, pct |-> TRUE]
NavUrls == {UrlPrivatePage, UrlPublic, UrlPublicPct}
NavIdx == {None, 1, 2}
NavOverrides == {None, 0, 5, -1}

\* the browser processes a scraper launched: whether the one self.browser
\* refers to runs, the contexts and pages open in it, the contexts and pages
\* that were still open when browser.close() ran, and the processes still
\* running that self.browser refers to no longer
NoHandles == [running |-> FALSE, contexts |-> 0, pages |-> 0, swept |-> 0,
              orphans |-> 0]

NoContent == [bound |-> FALSE, body |-> EmptyText]

\* the course of a task's last _get_robot_rules: whether it is over, whether
\* the robots.txt file was on disk when it began, the requests it sent, where
\* the policy came from, rp.mtime() at its end and the exception it raised;
\* prev tells how the task's preceding operation ended when that was a
\* _get_robot_rules of the same scraper, failure how its request failed,
\* beside whether it began while a request of another domain was in flight
NoRes == [called |-> FALSE, done |-> FALSE, cached |-> FALSE, netcalls |-> 0,
          source |-> "none", mtime |-> 0, raised |-> "none", prev |-> "none",
          failure |-> "none", beside |-> FALSE]

\* the course of a task's last navigate_to: its arguments, rp.mtime() and
\* the result of can_fetch when it checked, the delay it computed, whether it
\* slept and whether it called page.goto; exit tells the course of the
\* task's last exit instead
NoNav == [called |-> FALSE, done |-> FALSE, path |-> <<>>, idx |-> None,
          ov |-> None, checked |-> FALSE, mtime |-> 0, allowed |-> FALSE,
          delay |-> None, slept |-> FALSE, requested |-> FALSE,
          exit |-> "no"]

\* ------------------------------------------------------------------------
\* AsyncPlaywrightScrapper.__init__
\* ------------------------------------------------------------------------
InitObjects ==
    /\ user_agent = [s \in Scrapers |-> "*"]
    /\ rp = [s \in Scrapers |-> NoRobotFileParser]
    /\ request_rate = [s \in Scrapers |-> <<>>]
    /\ crawl_delay = [s \in Scrapers |-> None]
    /\ browser = [s \in Scrapers |-> "None"]
    /\ context = [s \in Scrapers |-> "(None,)"]
    /\ page = [s \in Scrapers |-> "None"]

InitEnvironment ==
    /\ disk = [f \in FileNames |-> NoFile]
    /\ clock = 1
    /\ inflight = [d \in Domains |-> 0]
    /\ fetches = [d \in Domains |-> 0]
    /\ requests = {}
    /\ handles = [s \in Scrapers |-> NoHandles]

InitTasks ==
    /\ pc = [t \in Tasks |-> "idle"]
    /\ self = [t \in Tasks |-> 1]
    /\ content = [t \in Tasks |-> NoContent]
    /\ exc = [t \in Tasks |-> "none"]
    /\ res = [t \in Tasks |-> NoRes]
    /\ nav = [t \in Tasks |-> NoNav]

RulesOff ==
    /\ rbody = <<>>
    /\ rpath = <<>>
    /\ ragent = "*"
    /\ rphase = "off"
    /\ rallowed = FALSE

\* no execution of AbstractScraper.run
NoOutcome == [kind |-> "none", value |-> <<>>]

RunOff ==
    /\ runpc = "off"
    /\ step = 0
    /\ called = <<>>
    /\ raw_data = <<>>
    /\ processed_data = <<>>
    /\ pending = "none"
    /\ outcome = NoOutcome
    /\ runsLeft = 0

\* no call of wait_for_and_then_return_elements
WaitOff ==
    /\ wpc = "off"
    /\ retries = 0
    /\ counter = 0
    /\ elements = <<>>
    /\ attempts = <<>>
    /\ wresult = NoOutcome

\* one task calls the scrapers, one operation after the other
Init ==
    /\ domain \in {d \in [Scrapers -> Domains] : d[1] = DomainCom}
    /\ InitObjects
    /\ InitEnvironment
    /\ InitTasks
    /\ opsLeft = [t \in Tasks |-> IF t = 1 THEN MaxOps ELSE 0]
    /\ RulesOff
    /\ RunOff
    /\ WaitOff

\* a scraper that never finds the robots.txt file it saved
CacheHitNever(s) == FALSE

\* line 120: os.path.exists(robots_txt_filepath)
CacheHit(s) == disk[ExtractDomainName(domain[s])].exists

\* how the _get_robot_rules that task t ran just before on scraper s ended:
\* with the body from the network or from disk, with the body but no file
\* written ("unsaved"), or without a body ("unavailable")
PrevOutcome(t, s) ==
    IF res[t].done /\ self[t] = s
    THEN IF res[t].raised = "OSError" THEN "unsaved" ELSE res[t].source
    ELSE "none"

\* whether another task awaits the response to its request for the
\* robots.txt of a domain other than that of scraper s
OtherDomainInFlight(t, s) ==
    \E u \in Tasks \ {t} : pc[u] = "fetching" /\ domain[self[u]] # domain[s]

\* an event loop that starts no operation while any request for robots.txt
\* is awaited
CallSerialized(t, s) ==
    /\ pc[t] = "idle"
    /\ \A u \in Tasks \ {t} : pc[u] # "fetching"
    /\ opsLeft[t] > 0
    /\ opsLeft' = [opsLeft EXCEPT ![t] = @ - 1]
    /\ self' = [self EXCEPT ![t] = s]

\* a task calls an operation of scraper s
Call(t, s) ==
    /\ pc[t] = "idle"
    /\ opsLeft[t] > 0
    /\ opsLeft' = [opsLeft EXCEPT ![t] = @ - 1]
    /\ self' = [self EXCEPT ![t] = s]

\* ------------------------------------------------------------------------
\* AsyncPlaywrightScrapper.start / __aenter__:
\*     await self._get_robot_rules(); await self._load_browser()
\* ------------------------------------------------------------------------
\* self.request_rate = self.rp.request_rate(self.user_agent) or 0
RequestRateOrZero(parser, ua) ==
    LET rate == RequestRateOf(parser, ua) IN IF rate = <<>> THEN <<0>> ELSE rate

\* line 159: int(None) raises TypeError
CrawlDelayRaises(parser, ua) == CrawlDelayOf(parser, ua) = None

\* lines 156-161, reading the parser: request_rate and crawl_delay are set
\* or TypeError is raised; then _get_robot_rules is over
SetRates(t, s, parser, result) ==
    /\ request_rate' = [request_rate EXCEPT ![s] = RequestRateOrZero(parser, user_agent[s])]
    /\ crawl_delay' = [crawl_delay EXCEPT ![s] =
                          IF CrawlDelayRaises(parser, user_agent[s]) THEN @
                          ELSE CrawlDelayOf(parser, user_agent[s])]
    /\ exc' = [exc EXCEPT ![t] =
                  IF CrawlDelayRaises(parser, user_agent[s]) THEN "TypeError" ELSE "none"]
    /\ res' = [res EXCEPT ![t] =
                  [result EXCEPT !.done = TRUE, !.mtime = parser.last_checked,
                                 !.raised = IF CrawlDelayRaises(parser, user_agent[s])
                                            THEN "TypeError" ELSE "none"]]
    /\ pc' = [pc EXCEPT ![t] =
                 IF CrawlDelayRaises(parser, user_agent[s]) THEN "idle" ELSE "launch"]
    /\ content' = [content EXCEPT ![t] = NoContent]

\* a _get_robot_rules that requests robots.txt again although the file is
\* on disk
ResolveRefetch(t, s) ==
    /\ Call(t, s)
    /\ CacheHit(s)
    /\ rp' = [rp EXCEPT ![s] = NewRobotFileParser]
    /\ inflight' = [inflight EXCEPT ![domain[s]] = @ + 1]
    /\ fetches' = [fetches EXCEPT ![domain[s]] = @ + 1]
    /\ res' = [res EXCEPT ![t] = [NoRes EXCEPT !.called = TRUE, !.cached = TRUE,
                                               !.netcalls = 1]]
    /\ nav' = [nav EXCEPT ![t] = NoNav]
    /\ exc' = [exc EXCEPT ![t] = "none"]
    /\ pc' = [pc EXCEPT ![t] = "fetching"]
    /\ UNCHANGED <<content, domain, user_agent, request_rate, crawl_delay, browser,
                   context, page, disk, clock, requests>>
    /\ UNCHANGED <<handles, otherVars>>

\* lines 110-126 and 156-161: a fresh parser replaces self.rp; the robots.txt
\* file on disk is parsed and the rates are set, all without suspending
ResolveFromDisk(t, s) ==
    /\ Call(t, s)
    /\ CacheHit(s)
    /\ \E now \in clock..MaxClock :
        LET parser == Parse(NewRobotFileParser,
                            SplitLines(ReadText(disk[ExtractDomainName(domain[s])])),
                            now)
        IN /\ clock' = now
           /\ rp' = [rp EXCEPT ![s] = parser]
           /\ SetRates(t, s, parser,
                       [NoRes EXCEPT !.called = TRUE,
                                     !.cached = disk[ExtractDomainName(domain[s])].exists,
                                     !.source = "disk-cache",
                                     !.prev = PrevOutcome(t, s),
                                     !.beside = OtherDomainInFlight(t, s)])
    /\ nav' = [nav EXCEPT ![t] = NoNav]
    /\ UNCHANGED <<domain, user_agent, browser, context, page,
                   disk, inflight, fetches, requests>>
    /\ UNCHANGED <<handles, otherVars>>

\* lines 110-130: a fresh parser replaces self.rp; no file on disk, so the
\* request for robots.txt is sent and the task awaits the response
ResolveFetch(t, s) ==
    /\ Call(t, s)
    /\ ~CacheHit(s)
    /\ rp' = [rp EXCEPT ![s] = NewRobotFileParser]
    /\ inflight' = [inflight EXCEPT ![domain[s]] = @ + 1]
    /\ fetches' = [fetches EXCEPT ![domain[s]] = @ + 1]
    /\ res' = [res EXCEPT ![t] =
                  [NoRes EXCEPT !.called = TRUE,
                                !.cached = disk[ExtractDomainName(domain[s])].exists,
                                !.netcalls = 1,
                                !.prev = PrevOutcome(t, s),
                                !.beside = OtherDomainInFlight(t, s)]]
    /\ nav' = [nav EXCEPT ![t] = NoNav]
    /\ exc' = [exc EXCEPT ![t] = "none"]
    /\ pc' = [pc EXCEPT ![t] = "fetching"]
    /\ UNCHANGED <<content, domain, user_agent, request_rate, crawl_delay, browser,
                   context, page, disk, clock, requests>>
    /\ UNCHANGED <<handles, otherVars>>

\* lines 130-134 and 142-149: the response is 200; its text is parsed into
\* self.rp and the finally block logs the content
ResolveResponseOk(t) ==
    /\ pc[t] = "fetching"
    /\ \E body \in ServerTexts, now \in clock..MaxClock :
        /\ clock' = now
        /\ content' = [content EXCEPT ![t] = [bound |-> TRUE, body |-> body]]
        /\ rp' = [rp EXCEPT ![self[t]] = Parse(@, SplitLines(body), now)]
    /\ inflight' = [inflight EXCEPT ![domain[self[t]]] = @ - 1]
    /\ res' = [res EXCEPT ![t].source = "network"]
    /\ pc' = [pc EXCEPT ![t] = "saving"]
    /\ UNCHANGED <<self, exc, nav, opsLeft, domain, user_agent, request_rate,
                   crawl_delay, browser, context, page, disk, fetches, requests>>
    /\ UNCHANGED <<handles, otherVars>>

\* the exception _get_robot_rules ends with when the fetch fails.
\* non-200: "return None" runs the finally block, where e_tuple is None and
\*   the f-string of line 149 reads the unbound local content.
\* timeout, client error: the handler reads e.__qualname__ of an exception
\*   instance (AttributeError), so e_tuple stays None; the finally block
\*   runs as above and its UnboundLocalError is what the caller sees.
FetchFailureException(kind) == "UnboundLocalError"

\* lines 130, 135-149: the response is not 200, or the request times out or
\* fails; self.rp stays the fresh parser
ResolveResponseFailed(t) ==
    /\ pc[t] = "fetching"
    /\ \E kind \in FetchFailures :
        /\ exc' = [exc EXCEPT ![t] = FetchFailureException(kind)]
        /\ res' = [res EXCEPT ![t].source = "unavailable", ![t].done = TRUE,
                              ![t].mtime = rp[self[t]].last_checked,
                              ![t].raised = FetchFailureException(kind),
                              ![t].failure = kind]
    /\ inflight' = [inflight EXCEPT ![domain[self[t]]] = @ - 1]
    /\ pc' = [pc EXCEPT ![t] = "idle"]
    /\ UNCHANGED <<self, content, nav, opsLeft, objVars, disk, clock, fetches, requests>>
    /\ UNCHANGED <<handles, otherVars>>

\* lines 151-161: the body is written to disk unless the file exists by now
\* (open may raise), then the rates are read from self.rp
ResolveSave(t) ==
    /\ pc[t] = "saving"
    /\ \E writable \in BOOLEAN :
        IF ~disk[ExtractDomainName(domain[self[t]])].exists /\ ~writable
        THEN /\ exc' = [exc EXCEPT ![t] = "OSError"]
             /\ res' = [res EXCEPT ![t].done = TRUE, ![t].raised = "OSError",
                                   ![t].mtime = rp[self[t]].last_checked]
             /\ pc' = [pc EXCEPT ![t] = "idle"]
             /\ content' = [content EXCEPT ![t] = NoContent]
             /\ UNCHANGED <<disk, request_rate, crawl_delay>>
        ELSE /\ disk' = IF disk[ExtractDomainName(domain[self[t]])].exists
                        THEN disk
                        ELSE [disk EXCEPT ![ExtractDomainName(domain[self[t]])] =
                                              FileOf(content[t].body, clock)]
             /\ SetRates(t, self[t], rp[self[t]], res[t])
    /\ UNCHANGED <<self, nav, opsLeft, domain, user_agent, rp, browser,
                   context, page, clock, inflight, fetches, requests>>
    /\ UNCHANGED <<handles, otherVars>>

\* _load_browser, line 169: chromium.launch succeeds or raises, and the
\* decorator re-raises
LoadBrowser(t) ==
    /\ pc[t] = "launch"
    /\ \E launched \in BOOLEAN :
        /\ browser' = [browser EXCEPT ![self[t]] = IF launched THEN "Browser" ELSE @]
        /\ handles' = [handles EXCEPT ![self[t]] =
                           IF launched
                           THEN [NoHandles EXCEPT !.running = TRUE,
                                    !.orphans = @ + handles[self[t]].orphans
                                                + (IF handles[self[t]].running
                                                   THEN 1 ELSE 0)]
                           ELSE @]
        /\ exc' = [exc EXCEPT ![t] = IF launched THEN "none" ELSE "PlaywrightError"]
    /\ pc' = [pc EXCEPT ![t] = "idle"]
    /\ UNCHANGED <<self, content, res, nav, opsLeft, domain, user_agent, rp,
                   request_rate, crawl_delay, context, page,
                   disk, clock, inflight, fetches, requests>>
    /\ UNCHANGED otherVars

\* ------------------------------------------------------------------------
\* AsyncPlaywrightScrapper.navigate_to
\* ------------------------------------------------------------------------
\* a navigate_to that takes every crawl_override given, 0 included
TruthyWhenGiven(n) == n # None

\* truthiness of crawl_override
Truthy(n) == n # None /\ n # 0

\* a navigate_to that delays every request, indexed or not
DelayAppliesAlways(idx) == TRUE

\* line 318: the delay applies to requests with an index above 1
DelayApplies(idx) == idx # None /\ idx > 1

\* lines 317-322, after can_fetch returned allowed: the delay computed and
\* the next position of the task
NavDelay(s, idx, ov, allowed) ==
    IF ~DelayApplies(idx)
    THEN [pc |-> "open_context", exc |-> "none", checked |-> TRUE,
          allowed |-> allowed, delay |-> None]
    ELSE IF Truthy(ov)
    THEN \* line 319: math is not imported
         [pc |-> "idle", exc |-> "NameError", checked |-> TRUE,
          allowed |-> allowed, delay |-> None]
    ELSE IF crawl_delay[s] = None
    THEN \* line 320: None > 0
         [pc |-> "idle", exc |-> "TypeError", checked |-> TRUE,
          allowed |-> allowed, delay |-> None]
    ELSE IF crawl_delay[s] > 0
    THEN [pc |-> "sleeping", exc |-> "none", checked |-> TRUE,
          allowed |-> allowed, delay |-> crawl_delay[s]]
    ELSE [pc |-> "open_context", exc |-> "none", checked |-> TRUE,
          allowed |-> allowed, delay |-> crawl_delay[s]]

\* a navigate_to that logs the disallowed URL and goes on instead of returning
NavCheckNoReturn(s, url, idx, ov) ==
    IF url.pct
    THEN [pc |-> "idle", exc |-> "NameError", checked |-> FALSE,
          allowed |-> FALSE, delay |-> None]
    ELSE IF rp[s].isNone
    THEN [pc |-> "idle", exc |-> "AttributeError", checked |-> FALSE,
          allowed |-> FALSE, delay |-> None]
    ELSE NavDelay(s, idx, ov, CanFetch(rp[s], user_agent[s], url.path))

\* a navigate_to that never consults robots.txt
NavCheckSkipped(s, url, idx, ov) ==
    IF url.pct
    THEN [pc |-> "idle", exc |-> "NameError", checked |-> FALSE,
          allowed |-> FALSE, delay |-> None]
    ELSE [NavDelay(s, idx, ov, FALSE) EXCEPT !.checked = FALSE]

\* where lines 308-322 leave navigate_to: the next position of the task,
\* the exception raised, whether can_fetch was called and what it returned,
\* and the delay computed
NavCheck(s, url, idx, ov) ==
    IF url.pct
    THEN \* line 310: re is not imported
         [pc |-> "idle", exc |-> "NameError", checked |-> FALSE,
          allowed |-> FALSE, delay |-> None]
    ELSE IF rp[s].isNone
    THEN \* line 313: self.rp is None
         [pc |-> "idle", exc |-> "AttributeError", checked |-> FALSE,
          allowed |-> FALSE, delay |-> None]
    ELSE IF ~CanFetch(rp[s], user_agent[s], url.path)
    THEN \* lines 313-315
         [pc |-> "idle", exc |-> "none", checked |-> TRUE,
          allowed |-> FALSE, delay |-> None]
    ELSE NavDelay(s, idx, ov, TRUE)

\* lines 308-322, up to the first await
NavBegin(t, s, url, idx, ov) ==
    /\ Call(t, s)
    /\ LET c == NavCheck(s, url, idx, ov)
       IN /\ pc' = [pc EXCEPT ![t] = c.pc]
          /\ exc' = [exc EXCEPT ![t] = c.exc]
          /\ nav' = [nav EXCEPT ![t] =
                        [called |-> TRUE, done |-> c.pc = "idle",
                         path |-> url.path, idx |-> idx, ov |-> ov,
                         checked |-> c.checked,
                         mtime |-> IF c.checked THEN rp[s].last_checked ELSE 0,
                         allowed |-> c.allowed, delay |-> c.delay,
                         slept |-> FALSE, requested |-> FALSE, exit |-> "no"]]
    /\ res' = [res EXCEPT ![t] = NoRes]
    /\ UNCHANGED <<content, objVars, envVars>>
    /\ UNCHANGED otherVars

\* line 322: asyncio.sleep(delay) is over
NavWake(t) ==
    /\ pc[t] = "sleeping"
    /\ nav' = [nav EXCEPT ![t].slept = TRUE]
    /\ pc' = [pc EXCEPT ![t] = "open_context"]
    /\ UNCHANGED <<self, content, exc, res, opsLeft, objVars, envVars>>
    /\ UNCHANGED otherVars

\* line 325, open_new_context: a context of the browser, or AttributeError;
\* new_context on a browser that was closed raises playwright's Error
NavOpenContext(t) ==
    /\ pc[t] = "open_context"
    /\ IF browser[self[t]] # "None" /\ handles[self[t]].running
       THEN /\ context' = [context EXCEPT ![self[t]] = "Context"]
            /\ handles' = [handles EXCEPT ![self[t]].contexts = @ + 1]
            /\ pc' = [pc EXCEPT ![t] = "open_page"]
            /\ UNCHANGED <<exc, nav>>
       ELSE /\ exc' = [exc EXCEPT ![t] = IF browser[self[t]] = "None"
                                        THEN "AttributeError" ELSE "PlaywrightError"]
            /\ nav' = [nav EXCEPT ![t].done = TRUE]
            /\ pc' = [pc EXCEPT ![t] = "idle"]
            /\ UNCHANGED <<context, handles>>
    /\ UNCHANGED <<self, content, res, opsLeft, domain, user_agent, rp, request_rate,
                   crawl_delay, browser, page, disk, clock, inflight, fetches, requests>>
    /\ UNCHANGED otherVars

\* line 326, open_new_page: a page of the context
NavOpenPage(t) ==
    /\ pc[t] = "open_page"
    /\ page' = [page EXCEPT ![self[t]] = "Page"]
    /\ handles' = [handles EXCEPT ![self[t]].pages = @ + 1]
    /\ pc' = [pc EXCEPT ![t] = "goto"]
    /\ UNCHANGED <<self, content, exc, res, nav, opsLeft, domain, user_agent, rp,
                   request_rate, crawl_delay, browser, context,
                   disk, clock, inflight, fetches, requests>>
    /\ UNCHANGED otherVars

\* a navigation request as a browser driver receives it: the class that
\* sent it, the path, and whether a can_fetch that returned True came first
Request(cls, path, gated) == [cls |-> cls, path |-> path, gated |-> gated]

\* lines 329-330: page.goto(url), then wait_till_idle; either may raise
NavGoto(t) ==
    /\ pc[t] = "goto"
    /\ requests' = requests \cup
                     {Request("AsyncPlaywrightScrapper", nav[t].path,
                              nav[t].checked /\ nav[t].allowed)}
    /\ \E loaded \in BOOLEAN :
        exc' = [exc EXCEPT ![t] = IF loaded THEN "none" ELSE "PlaywrightError"]
    /\ nav' = [nav EXCEPT ![t].requested = TRUE, ![t].done = TRUE]
    /\ pc' = [pc EXCEPT ![t] = "idle"]
    /\ UNCHANGED <<self, content, res, opsLeft, objVars, disk, clock, inflight, fetches>>
    /\ UNCHANGED <<handles, otherVars>>

\* ------------------------------------------------------------------------
\* SeleniumScraper.make_page
\* ------------------------------------------------------------------------
\* lines 132-134: self.driver.get(url); no robots.txt is consulted
MakePage(t, url) ==
    /\ pc[t] = "idle"
    /\ opsLeft[t] > 0
    /\ opsLeft' = [opsLeft EXCEPT ![t] = @ - 1]
    /\ requests' = requests \cup {Request("SeleniumScraper", url.path, FALSE)}
    /\ res' = [res EXCEPT ![t] = NoRes]
    /\ nav' = [nav EXCEPT ![t] = NoNav]
    /\ exc' = [exc EXCEPT ![t] = "none"]
    /\ UNCHANGED <<pc, self, content, objVars, disk, clock, inflight, fetches>>
    /\ UNCHANGED <<handles, otherVars>>

\* ------------------------------------------------------------------------
\* PlaywrightScrapper.navigate_to (async_abstract_scraper.py)
\* ------------------------------------------------------------------------
\* line 163: self._can_fetch(self.user_agent, url) passes two arguments to
\* _can_fetch(self, url); the call raises TypeError before the sleep of
\* line 170 and the page.goto of line 171
PlaywrightNavigateTo(t, url) ==
    /\ pc[t] = "idle"
    /\ opsLeft[t] > 0
    /\ opsLeft' = [opsLeft EXCEPT ![t] = @ - 1]
    /\ exc' = [exc EXCEPT ![t] = "TypeError"]
    /\ res' = [res EXCEPT ![t] = NoRes]
    /\ nav' = [nav EXCEPT ![t] = [NoNav EXCEPT !.called = TRUE, !.done = TRUE,
                                               !.path = url.path]]
    /\ UNCHANGED <<pc, self, content, objVars, envVars>>
    /\ UNCHANGED otherVars

\* ------------------------------------------------------------------------
\* AsyncPlaywrightScrapper.exit / __aexit__
\* ------------------------------------------------------------------------
\* line 192: self.close_current_page_and_context() is called and not awaited,
\* so the coroutine never runs and neither page nor context is closed;
\* line 193: if self.browser, close_browser is awaited, else exit returns
ExitBegin(t, s) ==
    /\ Call(t, s)
    /\ pc' = [pc EXCEPT ![t] = IF browser[s] # "None" THEN "close_browser" ELSE "idle"]
    /\ nav' = [nav EXCEPT ![t] =
                  [NoNav EXCEPT !.exit = IF browser[s] # "None" THEN "begun"
                                         ELSE "returned"]]
    /\ res' = [res EXCEPT ![t] = NoRes]
    /\ exc' = [exc EXCEPT ![t] = "none"]
    /\ UNCHANGED <<content, objVars, envVars>>
    /\ UNCHANGED otherVars

\* lines 221-228: browser.close() ends the process and with it every context
\* and page still open in it, or raises; self.browser keeps the reference
ExitCloseBrowser(t) ==
    /\ pc[t] = "close_browser"
    /\ \E closed \in BOOLEAN :
        /\ handles' = [handles EXCEPT ![self[t]] =
                           IF closed
                           THEN [@ EXCEPT !.running = FALSE,
                                          !.swept = @ + handles[self[t]].contexts
                                                      + handles[self[t]].pages,
                                          !.contexts = 0, !.pages = 0]
                           ELSE @]
        /\ exc' = [exc EXCEPT ![t] = IF closed THEN "none" ELSE "PlaywrightError"]
        /\ nav' = [nav EXCEPT ![t].exit = IF closed THEN "returned" ELSE "raised"]
    /\ pc' = [pc EXCEPT ![t] = "idle"]
    /\ UNCHANGED <<self, content, res, opsLeft, objVars,
                   disk, clock, inflight, fetches, requests>>
    /\ UNCHANGED otherVars

\* ------------------------------------------------------------------------
\* Specification Spec: one task calling the operations of the scrapers
\* ------------------------------------------------------------------------
Next ==
    \/ \E t \in Tasks, s \in Scrapers : ResolveFromDisk(t, s)
    \/ \E t \in Tasks, s \in Scrapers : ResolveFetch(t, s)
    \/ \E t \in Tasks : ResolveResponseOk(t)
    \/ \E t \in Tasks : ResolveResponseFailed(t)
    \/ \E t \in Tasks : ResolveSave(t)
    \/ \E t \in Tasks : LoadBrowser(t)
    \/ \E t \in Tasks, s \in Scrapers, url \in NavUrls, idx \in NavIdx,
          ov \in NavOverrides : NavBegin(t, s, url, idx, ov)
    \/ \E t \in Tasks : NavWake(t)
    \/ \E t \in Tasks : NavOpenContext(t)
    \/ \E t \in Tasks : NavOpenPage(t)
    \/ \E t \in Tasks : NavGoto(t)
    \/ \E t \in Tasks, url \in NavUrls : MakePage(t, url)
    \/ \E t \in Tasks, url \in NavUrls : PlaywrightNavigateTo(t, url)

Spec == Init /\ [][Next]_vars

\* ------------------------------------------------------------------------
\* Specification SpecConc: two tasks calling the scrapers of one domain
\* concurrently; a task runs until its next await, then any task may run
\* ------------------------------------------------------------------------
InitConc ==
    /\ domain = [s \in Scrapers |-> DomainCom]
    /\ InitObjects
    /\ InitEnvironment
    /\ InitTasks
    /\ opsLeft = [t \in Tasks |-> MaxConcOps]
    /\ RulesOff
    /\ RunOff
    /\ WaitOff

\* the tasks navigate with and without a request index, to an allowed and
\* to a disallowed URL; the first task keeps to the first scraper, the second
\* task shares it or has the other one, which is of the same domain
ScrapersOf(t) == IF t = 1 THEN {1} ELSE Scrapers

NextConc ==
    \/ \E t \in Tasks : \E s \in ScrapersOf(t) : ResolveFromDisk(t, s)
    \/ \E t \in Tasks : \E s \in ScrapersOf(t) : ResolveFetch(t, s)
    \/ \E t \in Tasks : ResolveResponseOk(t)
    \/ \E t \in Tasks : ResolveResponseFailed(t)
    \/ \E t \in Tasks : ResolveSave(t)
    \/ \E t \in Tasks : LoadBrowser(t)
    \/ \E t \in Tasks : \E s \in ScrapersOf(t), url \in {UrlPrivatePage, UrlPublic},
          idx \in {None, 2} : NavBegin(t, s, url, idx, None)
    \/ \E t \in Tasks : NavWake(t)
    \/ \E t \in Tasks : NavOpenContext(t)
    \/ \E t \in Tasks : NavOpenPage(t)
    \/ \E t \in Tasks : NavGoto(t)

SpecConc == InitConc /\ [][NextConc]_vars

\* ------------------------------------------------------------------------
\* One task starts a scraper, navigates to allowed URLs and exits
\* ------------------------------------------------------------------------
InitPages ==
    /\ domain = [s \in Scrapers |-> DomainCom]
    /\ InitObjects
    /\ InitEnvironment
    /\ InitTasks
    /\ opsLeft = [t \in Tasks |-> IF t = 1 THEN MaxPageOps ELSE 0]
    /\ RulesOff
    /\ RunOff
    /\ WaitOff

NextPages ==
    \/ \E t \in Tasks : ResolveFromDisk(t, 1)
    \/ \E t \in Tasks : ResolveFetch(t, 1)
    \/ \E t \in Tasks : ResolveResponseOk(t)
    \/ \E t \in Tasks : ResolveResponseFailed(t)
    \/ \E t \in Tasks : ResolveSave(t)
    \/ \E t \in Tasks : LoadBrowser(t)
    \/ \E t \in Tasks : NavBegin(t, 1, UrlPublic, None, None)
    \/ \E t \in Tasks : NavOpenContext(t)
    \/ \E t \in Tasks : NavOpenPage(t)
    \/ \E t \in Tasks : NavGoto(t)
    \/ \E t \in Tasks : ExitBegin(t, 1)
    \/ \E t \in Tasks : ExitCloseBrowser(t)

SpecPages == InitPages /\ [][NextPages]_vars

\* ------------------------------------------------------------------------
\* Task.cancel() on a task suspended in _get_robot_rules or in navigate_to
\* ------------------------------------------------------------------------
\* lines 129-130, 142-149: CancelledError is thrown into the task at
\* "async with session.get(...)"; the request is torn down with it. No except
\* clause takes a CancelledError; the finally block runs with e_tuple None
\* and reads the unbound local content, so UnboundLocalError takes the place
\* of the CancelledError
CancelFetch(t) ==
    /\ pc[t] = "fetching"
    /\ exc' = [exc EXCEPT ![t] = "UnboundLocalError"]
    /\ res' = [res EXCEPT ![t].source = "unavailable", ![t].done = TRUE,
                          ![t].mtime = rp[self[t]].last_checked,
                          ![t].raised = "UnboundLocalError",
                          ![t].failure = "cancelled"]
    /\ inflight' = [inflight EXCEPT ![domain[self[t]]] = @ - 1]
    /\ pc' = [pc EXCEPT ![t] = "idle"]
    /\ UNCHANGED <<self, content, nav, opsLeft, objVars, disk, clock, fetches, requests>>
    /\ UNCHANGED <<handles, otherVars>>

\* line 322: CancelledError is thrown into the task at asyncio.sleep(delay)
\* and leaves navigate_to
CancelSleep(t) ==
    /\ pc[t] = "sleeping"
    /\ exc' = [exc EXCEPT ![t] = "CancelledError"]
    /\ nav' = [nav EXCEPT ![t].done = TRUE]
    /\ pc' = [pc EXCEPT ![t] = "idle"]
    /\ UNCHANGED <<self, content, res, opsLeft, objVars, envVars>>
    /\ UNCHANGED otherVars

\* the tasks of SpecConc, each of which may be cancelled where it waits
NextCancel ==
    \/ \E t \in Tasks : \E s \in ScrapersOf(t) : ResolveFromDisk(t, s)
    \/ \E t \in Tasks : \E s \in ScrapersOf(t) : ResolveFetch(t, s)
    \/ \E t \in Tasks : ResolveResponseOk(t)
    \/ \E t \in Tasks : ResolveResponseFailed(t)
    \/ \E t \in Tasks : ResolveSave(t)
    \/ \E t \in Tasks : LoadBrowser(t)
    \/ \E t \in Tasks : \E s \in ScrapersOf(t), url \in {UrlPrivatePage, UrlPublic},
          idx \in {None, 2} : NavBegin(t, s, url, idx, None)
    \/ \E t \in Tasks : NavWake(t)
    \/ \E t \in Tasks : NavOpenContext(t)
    \/ \E t \in Tasks : NavOpenPage(t)
    \/ \E t \in Tasks : NavGoto(t)
    \/ \E t \in Tasks : CancelFetch(t)
    \/ \E t \in Tasks : CancelSleep(t)

SpecCancel == InitConc /\ [][NextCancel]_vars

\* ------------------------------------------------------------------------
\* Two tasks on one event loop, each with the scraper of a domain of its
\* own, start the scrapers: _get_robot_rules, then _load_browser; the first
\* task starts its scraper once, the second one time and again
\* ------------------------------------------------------------------------
ScraperOf(t) == t

InitPar ==
    /\ domain \in {d \in [Scrapers -> Domains] : d[1] = DomainCom /\ d[2] # DomainCom}
    /\ InitObjects
    /\ InitEnvironment
    /\ InitTasks
    /\ opsLeft = [t \in Tasks |-> IF t = 1 THEN 1 ELSE MaxOps]
    /\ RulesOff
    /\ RunOff
    /\ WaitOff

NextPar ==
    \/ \E t \in Tasks : ResolveFromDisk(t, ScraperOf(t))
    \/ \E t \in Tasks : ResolveFetch(t, ScraperOf(t))
    \/ \E t \in Tasks : ResolveResponseOk(t)
    \/ \E t \in Tasks : ResolveResponseFailed(t)
    \/ \E t \in Tasks : ResolveSave(t)
    \/ \E t \in Tasks : LoadBrowser(t)

SpecPar == InitPar /\ [][NextPar]_vars

\* ------------------------------------------------------------------------
\* Inputs of the rule evaluation
\* ------------------------------------------------------------------------
PathA        == <<"/", "a">>
PathAPublic  == <<"/", "a", "/", "public">>
PathAPublicX == <<"/", "a", "/", "public", "/", "x">>
PathAPrivate == <<"/", "a", "/", "private">>
PathB        == <<"/", "b">>

\* the path patterns of the generated rules; <<>> is the empty value
RulePaths == {<<>>, PathA, PathAPublic, PathAPrivate}

\* the paths of the URLs checked; <<>> is a URL with no path
CheckPaths == {<<>>, PathA, PathAPublic, PathAPublicX, PathAPrivate, PathB}

RuleLineSet ==
    {AllowLine(p) : p \in RulePaths} \cup {DisallowLine(p) : p \in RulePaths}

RECURSIVE SeqsUpTo(_, _)
SeqsUpTo(S, n) ==
    IF n = 0 THEN {<<>>}
    ELSE LET shorter == SeqsUpTo(S, n - 1)
         IN shorter \cup {Append(q, x) : q \in {r \in shorter : Len(r) = n - 1}, x \in S}

\* robots.txt bodies: one User-agent line, then up to MaxRules rule lines
RuleBodies ==
    {<<UserAgentLine(a)>> \o rules :
        a \in {"*", "bot"}, rules \in SeqsUpTo(RuleLineSet, MaxRules)}

\* ------------------------------------------------------------------------
\* Specification SpecRules: RobotFileParser.parse followed by can_fetch, as
\* navigate_to consults it, on every generated body, path and user agent
\* ------------------------------------------------------------------------
RulesInit ==
    /\ domain = [s \in Scrapers |-> DomainCom]
    /\ InitObjects
    /\ InitEnvironment
    /\ InitTasks
    /\ opsLeft = [t \in Tasks |-> 0]
    /\ rbody \in RuleBodies
    /\ rpath \in CheckPaths
    /\ ragent \in {"*", "mybot"}
    /\ rphase = "input"
    /\ rallowed = FALSE
    /\ RunOff
    /\ WaitOff

\* self.rp.parse(content.splitlines()); self.rp.can_fetch(self.user_agent, url)
RulesCheck ==
    /\ rphase = "input"
    /\ rallowed' = CanFetch(Parse(NewRobotFileParser, rbody, 1), ragent, rpath)
    /\ rphase' = "checked"
    /\ UNCHANGED <<rbody, rpath, ragent>>
    /\ UNCHANGED <<objVars, envVars, taskVars, runVars, waitVars>>

RulesNext == RulesCheck

SpecRules == RulesInit /\ [][RulesNext]_vars

\* ------------------------------------------------------------------------
\* AbstractScraper.run (async_abstract_browser_controller.py, lines 161-171)
\* ------------------------------------------------------------------------
\* the awaits of the try block, in the order of lines 164-168
RunSteps == <<"setup", "navigate_to_target", "extract_data", "process_data",
              "save_data">>

\* what an implementation of extract_data may return, and what process_data
\* makes of it
RawValues == {"rows", "links", "nothing"}
ProcessData(raw) == <<"processed", raw>>

\* the scraper is constructed; run has not been called
RunInit ==
    /\ domain = [s \in Scrapers |-> DomainCom]
    /\ InitObjects
    /\ InitEnvironment
    /\ InitTasks
    /\ opsLeft = [t \in Tasks |-> 0]
    /\ RulesOff
    /\ WaitOff
    /\ runpc = "idle"
    /\ step = 0
    /\ called = <<>>
    /\ raw_data = <<>>
    /\ processed_data = <<>>
    /\ pending = "none"
    /\ outcome = NoOutcome
    /\ runsLeft = MaxRuns

\* line 162: run is called and enters the try block
RunBegin ==
    /\ runpc = "idle"
    /\ runsLeft > 0
    /\ runsLeft' = runsLeft - 1
    /\ runpc' = "try"
    /\ step' = 1
    /\ called' = <<>>
    /\ raw_data' = <<>>
    /\ processed_data' = <<>>
    /\ pending' = "none"
    /\ outcome' = NoOutcome
    /\ UNCHANGED <<objVars, envVars, taskVars, ruleVars, waitVars>>

\* a run without the finally clause: an exception of a step leaves run at
\* once
RunStepNoFinally ==
    /\ runpc = "try"
    /\ called' = Append(called, RunSteps[step])
    /\ \E ok \in BOOLEAN, raw \in RawValues :
        IF ok
        THEN /\ raw_data' = IF RunSteps[step] = "extract_data" THEN raw ELSE raw_data
             /\ processed_data' = IF RunSteps[step] = "process_data"
                                  THEN ProcessData(raw_data) ELSE processed_data
             /\ step' = IF step < Len(RunSteps) THEN step + 1 ELSE step
             /\ runpc' = IF step < Len(RunSteps) THEN "try" ELSE "finally"
             /\ UNCHANGED <<pending, outcome>>
        ELSE /\ pending' = RunSteps[step]
             /\ outcome' = [kind |-> "raised", value |-> RunSteps[step]]
             /\ runpc' = "idle"
             /\ UNCHANGED <<step, raw_data, processed_data>>
    /\ UNCHANGED runsLeft
    /\ UNCHANGED <<objVars, envVars, taskVars, ruleVars, waitVars>>

\* lines 164-169: the next step of the try block is awaited. It returns,
\* and the try block goes on (after save_data the return value is set and
\* the finally clause runs), or it raises, and the finally clause runs with
\* the exception pending
RunStep ==
    /\ runpc = "try"
    /\ called' = Append(called, RunSteps[step])
    /\ \E ok \in BOOLEAN, raw \in RawValues :
        IF ok
        THEN /\ raw_data' = IF RunSteps[step] = "extract_data" THEN raw ELSE raw_data
             /\ processed_data' = IF RunSteps[step] = "process_data"
                                  THEN ProcessData(raw_data) ELSE processed_data
             /\ step' = IF step < Len(RunSteps) THEN step + 1 ELSE step
             /\ runpc' = IF step < Len(RunSteps) THEN "try" ELSE "finally"
             /\ UNCHANGED pending
        ELSE /\ pending' = RunSteps[step]
             /\ runpc' = "finally"
             /\ UNCHANGED <<step, raw_data, processed_data>>
    /\ UNCHANGED <<outcome, runsLeft>>
    /\ UNCHANGED <<objVars, envVars, taskVars, ruleVars, waitVars>>

\* a finally clause that returns: the pending exception is dropped
RunCleanupSwallows ==
    /\ runpc = "finally"
    /\ called' = Append(called, "cleanup")
    /\ \E ok \in BOOLEAN :
        outcome' = IF ~ok THEN [kind |-> "raised", value |-> "cleanup"]
                   ELSE [kind |-> "returned", value |-> processed_data]
    /\ runpc' = "idle"
    /\ UNCHANGED <<step, raw_data, processed_data, pending, runsLeft>>
    /\ UNCHANGED <<objVars, envVars, taskVars, ruleVars, waitVars>>

\* lines 170-171: cleanup is awaited. When it returns, the pending exception
\* goes on to the caller, or run returns processed_data; when cleanup
\* raises, its exception is the one the caller gets
RunCleanup ==
    /\ runpc = "finally"
    /\ called' = Append(called, "cleanup")
    /\ \E ok \in BOOLEAN :
        outcome' = IF ~ok THEN [kind |-> "raised", value |-> "cleanup"]
                   ELSE IF pending # "none" THEN [kind |-> "raised", value |-> pending]
                   ELSE [kind |-> "returned", value |-> processed_data]
    /\ runpc' = "idle"
    /\ UNCHANGED <<step, raw_data, processed_data, pending, runsLeft>>
    /\ UNCHANGED <<objVars, envVars, taskVars, ruleVars, waitVars>>

RunNext ==
    \/ RunBegin
    \/ RunStep
    \/ RunCleanup

SpecRun == RunInit /\ [][RunNext]_vars

\* ------------------------------------------------------------------------
\* SeleniumScraper.wait_for_and_then_return_elements (lines 192-232) and its
\* helpers _wait_to_load and _check_if_interactable (lines 137-189)
\* ------------------------------------------------------------------------
\* the exceptions the decorators of the helpers list (lines 137-139 and
\* 161-164), and one they do not list
ListedExceptions == {"TimeoutException", "StaleElementReferenceException"}
OtherExceptions == {"ConnectionError"}

\* the lists of elements WebDriverWait.until may come back with: until
\* returns only a value that is truthy
ElementLists == {<<"e1">>, <<"e1", "e2">>}

\* what the body of a helper does: it returns, or an exception leaves it
Returned(value) == [kind |-> "returned", value |-> value]
Raised(e) == [kind |-> "raised", value |-> e]

\* @try_except(exception=[...]) without raise_exception on a helper: an
\* exception of the list is logged and the helper returns None (written
\* <<>> here, falsy like None); any other exception reaches the caller
TryExcept(result) ==
    IF result.kind = "raised" /\ result.value \in ListedExceptions
    THEN [kind |-> "returned", value |-> <<>>, failed |-> TRUE]
    ELSE [kind |-> result.kind, value |-> result.value, failed |-> result.kind = "raised"]

\* what the body of _wait_to_load and of _check_if_interactable may do
WaitToLoadResults ==
    {Returned(l) : l \in ElementLists}
        \cup {Raised(e) : e \in ListedExceptions \cup OtherExceptions}
CheckIfInteractableResults ==
    {Returned(<<>>)} \cup {Raised(e) : e \in ListedExceptions \cup OtherExceptions}

\* one pass of the loop, as the log keeps it: whether the wait for the
\* elements and the check of interactability succeeded
Attempt(loaded, interactable) == [loaded |-> loaded, interactable |-> interactable]

\* lines 215-216: the call with retries > 0 (the assert of line 215)
WaitInit ==
    /\ domain = [s \in Scrapers |-> DomainCom]
    /\ InitObjects
    /\ InitEnvironment
    /\ InitTasks
    /\ opsLeft = [t \in Tasks |-> 0]
    /\ RulesOff
    /\ RunOff
    /\ wpc = "loop"
    /\ retries \in 1..MaxRetries
    /\ counter = 0
    /\ elements = <<>>
    /\ attempts = <<>>
    /\ wresult = NoOutcome

\* lines 217-223, 229-230: a pass of the loop begins with _wait_to_load.
\* Elements: the pass goes on; None: "return []"; an exception: the bare
\* except counts the pass
WaitToLoad ==
    /\ wpc = "loop"
    /\ counter < retries
    /\ \E result \in WaitToLoadResults :
        LET got == TryExcept(result)
        IN IF got.kind = "raised"
           THEN /\ counter' = counter + 1
                /\ attempts' = Append(attempts, Attempt(FALSE, FALSE))
                /\ wpc' = "loop"
                /\ UNCHANGED <<elements, wresult>>
           ELSE /\ elements' = got.value
                /\ IF got.value = <<>>
                   THEN /\ attempts' = Append(attempts, Attempt(FALSE, FALSE))
                        /\ wresult' = Returned(<<>>)
                        /\ wpc' = "done"
                   ELSE /\ wpc' = "check"
                        /\ UNCHANGED <<attempts, wresult>>
                /\ UNCHANGED counter
    /\ UNCHANGED retries
    /\ UNCHANGED <<objVars, envVars, taskVars, ruleVars, runVars>>

\* lines 225-230: _check_if_interactable, whose return value is not looked
\* at: when it returns, "return elements"; when it raises, the bare except
\* counts the pass
WaitCheck ==
    /\ wpc = "check"
    /\ \E result \in CheckIfInteractableResults :
        LET got == TryExcept(result)
        IN IF got.kind = "raised"
           THEN /\ counter' = counter + 1
                /\ attempts' = Append(attempts, Attempt(TRUE, FALSE))
                /\ wpc' = "loop"
                /\ UNCHANGED wresult
           ELSE /\ attempts' = Append(attempts, Attempt(TRUE, ~got.failed))
                /\ wresult' = Returned(elements)
                /\ wpc' = "done"
                /\ UNCHANGED counter
    /\ UNCHANGED <<retries, elements>>
    /\ UNCHANGED <<objVars, envVars, taskVars, ruleVars, runVars>>

\* lines 217, 231-232: counter has reached retries: "return []"
WaitGiveUp ==
    /\ wpc = "loop"
    /\ counter >= retries
    /\ wresult' = Returned(<<>>)
    /\ wpc' = "done"
    /\ UNCHANGED <<retries, counter, elements, attempts>>
    /\ UNCHANGED <<objVars, envVars, taskVars, ruleVars, runVars>>

WaitNext ==
    \/ WaitToLoad
    \/ WaitCheck
    \/ WaitGiveUp

SpecWait == WaitInit /\ [][WaitNext]_vars

\* ------------------------------------------------------------------------
\* Properties of robots.txt resolution and of gated navigation (Spec)
\* ------------------------------------------------------------------------
\* the navigation of task t has gone past the robots and delay logic
NavStarted(t) ==
    nav[t].requested \/ pc[t] \in {"open_context", "open_page", "goto"}

\* C1: when the retrieval of robots.txt failed (the parser navigate_to
\* consults was never fed a file: mtime 0), the policy in force allows the
\* URL checked and the crawl delay of the domain is 0.
C1_DegradeToAllow ==
    \A t \in Tasks :
        (nav[t].checked /\ nav[t].mtime = 0) =>
            (nav[t].allowed /\ crawl_delay[self[t]] = 0)

\* C2: a resolution whose robots.txt fetch failed (non-200, timeout, client
\* error) ends without raising to its caller.
C2_ResolveNeverRaises ==
    \A t \in Tasks :
        (res[t].done /\ res[t].source = "unavailable") => res[t].raised = "none"

\* C3: once a resolution has got a robots.txt body (from the network or from
\* disk, the file kept or written), crawl_delay is a number >= 0; a body with
\* no Crawl-delay value, or one that is no number, gives 0.
C3_CrawlDelayDefined ==
    \A t \in Tasks :
        (res[t].done /\ res[t].source \in {"network", "disk-cache"}
                     /\ res[t].raised # "OSError") =>
            (crawl_delay[self[t]] # None /\ crawl_delay[self[t]] >= 0)

\* C4: a navigation whose URL can_fetch disallows returns at once: it is
\* over, without exception, has not slept and has sent no browser request.
C4_DisallowedReturnsAtOnce ==
    \A t \in Tasks :
        (nav[t].checked /\ ~nav[t].allowed) =>
            /\ nav[t].done
            /\ pc[t] = "idle"
            /\ exc[t] = "none"
            /\ ~nav[t].slept
            /\ ~nav[t].requested

\* a disallowed URL of a parsed policy with Crawl-delay 3, requested with
\* index 2
C4_Witness ==
    \E t \in Tasks :
        /\ nav[t].done /\ nav[t].checked /\ ~nav[t].allowed
        /\ nav[t].mtime # 0
        /\ nav[t].idx = 2
        /\ crawl_delay[self[t]] = 3

C7_OneFetchInFlight ==
    \A d \in Domains : inflight[d] <= 1

BodyRules == SubSeq(rbody, 2, Len(rbody))

\* the group of the body checked is the one consulted for the user agent
BodyApplies == rbody[1].agent = "*" \/ IsSubstring(rbody[1].agent, ragent)

\* the rules of the body whose pattern is a prefix of the path checked
BodyMatching == {i \in 1..Len(BodyRules) : IsPrefix(BodyRules[i].path, UrlPath(rpath))}

\* what rule i of the body says: Allow, or an empty Disallow
BodyRuleAllows(i) == BodyRules[i].k = "allow" \/ BodyRules[i].path = <<>>

C10_TieDisallows ==
    (rphase = "checked" /\ BodyApplies) =>
        \A i, j \in BodyMatching :
            (/\ BodyRules[i].k = "allow" /\ BodyRules[j].k = "disallow"
             /\ BodyRules[i].path # <<>>
             /\ Len(BodyRules[i].path) = Len(BodyRules[j].path)
             /\ \A k \in BodyMatching :
                    Len(BodyRules[k].path) <= Len(BodyRules[i].path))
              => ~rallowed

\* C10 amended: when an Allow and a Disallow rule of equal pattern length
\* both match a path and no matching rule is declared before the two, the
\* one declared first decides: allowed if it is the Allow rule, disallowed
\* if it is the Disallow rule.
C10_TieFirstDeclaredWins ==
    (rphase = "checked" /\ BodyApplies) =>
        \A i, j \in BodyMatching :
            (/\ BodyRules[i].k = "allow" /\ BodyRules[j].k = "disallow"
             /\ BodyRules[i].path # <<>>
             /\ Len(BodyRules[i].path) = Len(BodyRules[j].path)
             /\ \A k \in BodyMatching : i <= k \/ j <= k)
              => rallowed = (i < j)

\* Allow: /a declared before Disallow: /a: /a is allowed
C10_Witness ==
    /\ rphase = "checked"
    /\ rbody = <<UserAgentLine("*"), AllowLine(PathA), DisallowLine(PathA)>>
    /\ rpath = PathA
    /\ rallowed

\* ------------------------------------------------------------------------
\* Properties of crawl_override (Spec)
\* ------------------------------------------------------------------------
\* C11: in a navigation the delay logic applies to (allowed URL, request
\* index above 1), a positive crawl_override is the delay used, whatever
\* crawl_delay is, and a negative crawl_override is ignored: crawl_delay is
\* the delay used.
C11_OverrideIsDelayUsed ==
    \A t \in Tasks :
        (nav[t].checked /\ nav[t].allowed /\ nav[t].idx # None /\ nav[t].idx > 1
            /\ nav[t].ov # None /\ crawl_delay[self[t]] # None) =>
            /\ nav[t].ov > 0 => (nav[t].delay = nav[t].ov /\ exc[t] # "NameError")
            /\ nav[t].ov < 0 => (nav[t].delay = crawl_delay[self[t]]
                                   /\ exc[t] # "NameError")

\* C12 as stated: a crawl_override of exactly 0 takes precedence over a
\* crawl_delay > 0: the delay used is 0 and the navigation does not wait.
C12_ZeroOverrideUsed ==
    \A t \in Tasks :
        (nav[t].checked /\ nav[t].allowed /\ nav[t].idx # None /\ nav[t].idx > 1
            /\ nav[t].ov = 0 /\ crawl_delay[self[t]] # None
            /\ crawl_delay[self[t]] > 0) =>
            (nav[t].delay = 0 /\ pc[t] # "sleeping" /\ ~nav[t].slept)

\* C12 amended: a crawl_override of exactly 0 does not take precedence; it
\* counts as not given. With override 0 and a request index above 1 the
\* delay used is crawl_delay, and when crawl_delay > 0 the navigation waits
\* crawl_delay before it opens the context.
C12_ZeroOverrideIgnored ==
    \A t \in Tasks :
        (nav[t].checked /\ nav[t].allowed /\ nav[t].idx # None /\ nav[t].idx > 1
            /\ nav[t].ov = 0 /\ crawl_delay[self[t]] # None) =>
            /\ nav[t].delay = crawl_delay[self[t]]
            /\ exc[t] # "NameError"
            /\ (crawl_delay[self[t]] > 0 /\ ~nav[t].slept) => pc[t] = "sleeping"
            /\ crawl_delay[self[t]] = 0 => ~nav[t].slept

\* a request with index 2 and override 0 sent after a sleep of 3
C12_Witness ==
    \E t \in Tasks :
        /\ nav[t].requested /\ nav[t].slept
        /\ nav[t].idx = 2 /\ nav[t].ov = 0
        /\ nav[t].delay = 3 /\ crawl_delay[self[t]] = 3

C16_WriteFailureSwallowed ==
    \A t \in Tasks :
        (res[t].done /\ res[t].source = "network"
            /\ ~disk[ExtractDomainName(domain[self[t]])].exists) =>
            /\ res[t].raised # "OSError"
            /\ request_rate[self[t]] = RequestRateOrZero(rp[self[t]], user_agent[self[t]])

C18_TimeoutEndsDegraded ==
    \A t \in Tasks :
        (res[t].called /\ res[t].failure = "timeout") =>
            /\ res[t].done
            /\ res[t].raised = "none"
            /\ \A url \in NavUrls : CanFetch(rp[self[t]], user_agent[self[t]], url.path)
            /\ crawl_delay[self[t]] = 0

\* ------------------------------------------------------------------------
\* Properties of callers sharing a resolution (SpecConc)
\* ------------------------------------------------------------------------
\* the tasks whose _get_robot_rules for domain d is under way and has sent a
\* request of its own
OwnRequestUnderWay(d) ==
    {t \in Tasks : /\ res[t].called /\ ~res[t].done
                   /\ domain[self[t]] = d
                   /\ res[t].netcalls > 0}

\* C19: while the policy of a domain is being resolved, every other caller
\* for that domain waits on the resolution under way: of the callers whose
\* resolution for the domain is under way, at most one has sent a request.
C19_CallersShareResolution ==
    \A d \in Domains : Cardinality(OwnRequestUnderWay(d)) <= 1

\* ------------------------------------------------------------------------
\* Properties of resolutions for different domains (SpecPar)
\* ------------------------------------------------------------------------
\* C20: while the request of a task for the robots.txt of one domain is in
\* flight, however long, a task resolving another domain is never held up:
\* it can begin its resolution, it can take the response to its own request
\* and it can save the body and end.
C20_DomainsNeverBlock ==
    \A t \in Tasks : \A u \in Tasks \ {t} :
        (pc[u] = "fetching" /\ domain[self[u]] # domain[ScraperOf(t)]) =>
            /\ (pc[t] = "idle" /\ opsLeft[t] > 0) =>
                   ENABLED (\/ ResolveFetch(t, ScraperOf(t))
                            \/ ResolveFromDisk(t, ScraperOf(t)))
            /\ pc[t] = "fetching" => ENABLED ResolveResponseOk(t)
            /\ pc[t] = "saving" => ENABLED ResolveSave(t)

\* the first request of task 1 is still in flight, and task 2 has begun
\* after it was sent, fetched, saved and set its rates for another domain
C20_Witness ==
    /\ pc[1] = "fetching" /\ opsLeft[1] = 0
    /\ domain[self[2]] # domain[self[1]]
    /\ res[2].done /\ res[2].beside
    /\ res[2].source = "network" /\ res[2].raised = "none"
    /\ crawl_delay[self[2]] # None

\* ------------------------------------------------------------------------
\* Properties of cancellation (SpecCancel)
\* ------------------------------------------------------------------------
\* task t is cancelled in this step, while it waits for the robots.txt of
\* its domain or for its crawl delay
Cancelled(t) ==
    \/ pc[t] = "fetching" /\ res'[t].failure = "cancelled"
    \/ pc[t] = "sleeping" /\ exc'[t] = "CancelledError"

\* C21: cancelling a caller that waits on the resolution of its domain, or
\* on its crawl delay, cancels no request in flight for the domain and takes
\* nothing from the other callers: they stay where they are, with the parser
\* and the rates of their scrapers untouched.
C21_CancelLeavesFetch ==
    [][\A t \in Tasks :
          Cancelled(t) =>
              /\ inflight'[domain[self[t]]] = inflight[domain[self[t]]]
              /\ \A u \in Tasks \ {t} : pc'[u] = pc[u] /\ res'[u] = res[u]
              /\ rp' = rp /\ crawl_delay' = crawl_delay
              /\ request_rate' = request_rate]_vars

\* ------------------------------------------------------------------------
\* Properties of navigations beside a resolution (SpecConc)
\* ------------------------------------------------------------------------
\* a _get_robot_rules of scraper s is under way: a fresh parser is in
\* self.rp, and the rates are not set yet
Resolving(s) ==
    \E u \in Tasks : res[u].called /\ ~res[u].done /\ self[u] = s

\* C22: no navigate_to runs its can_fetch check and its delay computation
\* on a scraper while a resolution of that scraper is under way.
C22_NoReadWhileResolving ==
    [][\A t \in Tasks :
          (pc[t] = "idle" /\ nav'[t] # nav[t] /\ nav'[t].checked)
              => ~Resolving(self'[t])]_vars

\* ------------------------------------------------------------------------
\* Properties of the name of the robots.txt file (Spec)
\* ------------------------------------------------------------------------
\* C23: distinct domains have distinct robots.txt files, and a policy read
\* from disk is read from a file that a fetch for the scraper's own domain
\* wrote.
C23_FileNameInjective ==
    /\ \A d1 \in Domains : \A d2 \in Domains \ {d1} :
           ExtractDomainName(d1) # ExtractDomainName(d2)
    /\ \A t \in Tasks :
           (res[t].done /\ res[t].source = "disk-cache")
               => fetches[domain[self[t]]] > 0

\* ------------------------------------------------------------------------
\* Properties of the browser, contexts and pages of a scraper (SpecPages)
\* ------------------------------------------------------------------------
\* C24: when exit has returned, the browser self.browser refers to, its
\* contexts and its pages are closed, and browser.close() found no context
\* and no page still open: they were closed before it.
C24_ExitClosesInOrder ==
    \A t \in Tasks :
        nav[t].exit = "returned" =>
            LET h == handles[self[t]]
            IN /\ ~h.running
               /\ h.contexts = 0 /\ h.pages = 0
               /\ h.swept = 0

\* C25: when navigate_to has loaded an allowed URL, one context and one
\* page are open in the browser of the scraper, whatever navigations came
\* before.
C25_OneContextOnePage ==
    \A t \in Tasks :
        (nav[t].called /\ nav[t].done /\ nav[t].requested) =>
            /\ handles[self[t]].contexts <= 1
            /\ handles[self[t]].pages <= 1

\* ------------------------------------------------------------------------
\* Properties of AbstractScraper.run (SpecRun)
\* ------------------------------------------------------------------------
\* how many times method m was invoked in the execution
TimesCalled(m) == Cardinality({i \in 1..Len(called) : called[i] = m})

\* the execution of run is over
RunOver == runpc = "idle" /\ outcome.kind # "none"

\* C26: cleanup is not invoked while the try block runs, and when the
\* execution is over cleanup has been invoked exactly once, as the last
\* call, whether every step returned or one of them raised.
C26_CleanupOnceAtEnd ==
    /\ runpc = "try" => TimesCalled("cleanup") = 0
    /\ RunOver => /\ TimesCalled("cleanup") = 1
                  /\ called[Len(called)] = "cleanup"

\* extract_data raised: setup, navigate_to_target and extract_data were
\* called, then cleanup, and the execution is over
C26_Witness ==
    /\ RunOver
    /\ pending = "extract_data"
    /\ called = <<"setup", "navigate_to_target", "extract_data", "cleanup">>

\* the steps of the try block that the execution invoked
StepsCalled == SelectSeq(called, LAMBDA m : m # "cleanup")

\* C27 as stated: the steps run in the order of RunSteps and none runs
\* after one that raised; the exception of a step that raised is what the
\* caller gets, and run returns processed_data only when save_data returned.
C27_StepExceptionPropagates ==
    /\ StepsCalled = SubSeq(RunSteps, 1, Len(StepsCalled))
    /\ pending # "none" => StepsCalled[Len(StepsCalled)] = pending
    /\ RunOver =>
          /\ pending # "none" => outcome = [kind |-> "raised", value |-> pending]
          /\ outcome.kind = "returned" =>
                 /\ StepsCalled = RunSteps /\ pending = "none"
                 /\ outcome.value = processed_data

\* C27: as above, but when cleanup raises as well the caller gets the
\* exception of cleanup in place of that of the step.
C27_StepOrCleanupExceptionPropagates ==
    /\ StepsCalled = SubSeq(RunSteps, 1, Len(StepsCalled))
    /\ pending # "none" => StepsCalled[Len(StepsCalled)] = pending
    /\ RunOver =>
          /\ pending # "none" =>
                 /\ outcome.kind = "raised"
                 /\ outcome.value \in {pending, "cleanup"}
          /\ outcome.kind = "returned" =>
                 /\ StepsCalled = RunSteps /\ pending = "none"
                 /\ outcome.value = processed_data

\* process_data raised and cleanup returned: save_data was not called and
\* the caller got the exception of process_data
C27_Witness ==
    /\ RunOver
    /\ pending = "process_data"
    /\ called = <<"setup", "navigate_to_target", "extract_data", "process_data",
                  "cleanup">>
    /\ outcome = [kind |-> "raised", value |-> "process_data"]

\* ------------------------------------------------------------------------
\* Properties of SeleniumScraper.wait_for_and_then_return_elements (SpecWait)
\* ------------------------------------------------------------------------
\* a pass of the loop in which the elements loaded and were interactable
Succeeded(a) == a.loaded /\ a.interactable

====
